---- MODULE Spec2Model ----
(***************************************************************************)
(* A model of the voice subsystem of radiochat-tui: the VoiceManager       *)
(* signaling state machine (src/src/voice/manager.rs) with the AudioEngine *)
(* stream bookkeeping it drives (src/src/voice/audio.rs).                  *)
(*                                                                         *)
(* One VoiceManager, with everything it shares with its callbacks, is a    *)
(* record m; every handler step is an operator from records to records.    *)
(* Spec runs one manager against an arbitrary host and arbitrary remote    *)
(* peers that send signals but no media; SpecMedia runs it against peers   *)
(* whose media tracks arrive, with the on_track callbacks in flight;       *)
(* SpecMesh runs one manager per member of a room, joined by the relay;    *)
(* SpecFeed runs it with the capture pipeline and the task that feeds the  *)
(* local track; SpecResampler runs one StatefulResampler on a stream that  *)
(* arrives in chunks; SpecLocks runs the handlers of the run loop and the  *)
(* on_track callback as the sequences of lock and await steps they are;    *)
(* SpecPlayback runs the decode task and the output callback of one        *)
(* playback stream on their ring buffer; SpecCapture runs the encoding     *)
(* task of the capture stream on chunks of any length; SpecRun runs the    *)
(* select! of the run loop on its three channels.                          *)
(*                                                                         *)
(* m.events holds what was sent on event_tx and the host has not taken     *)
(* yet: the host takes the events of a handler when the handler has        *)
(* returned, and those of a callback when the callback has run.            *)
(***************************************************************************)
EXTENDS Integers, Sequences, FiniteSets, TLC

VARIABLES
    vm,     \* the VoiceManager of Spec and SpecMedia
    mesh,   \* the VoiceManagers of SpecMesh and the relay between them
    feed,   \* the encoded packets and the task that feeds the local track
    dsp,    \* the StatefulResampler of a stream and what went through it
    sync,   \* the two mutexes of the manager and the tasks that take them
    play,   \* the ring buffer of a playback stream and its two ends
    cap,    \* the encoding task of the capture stream and its frame buffer
    sel     \* the channels the run loop selects on

vars == <<vm, mesh, feed, dsp, sync, play, cap, sel>>

(* ------------------------------ bounds --------------------------------- *)

\* RTCPeerConnection objects of one manager that exist at a time.
MaxConns == 2
\* InternalCmd values waiting in the internal channel.
MaxInternal == 1
\* ICE candidates of one peer the manager holds, buffered or applied.
MaxCandidates == 2
\* Signals the relay holds for one member of the room.
MaxInbox == 3
\* Samples of one stream that go through its resampler.
MaxInput == 7
\* Calls of process on one resampler.
MaxCalls == 2
\* Encoded packets waiting in the channel to the feed task.
MaxPackets == 1
\* TxActivity(true) events the host has not taken yet.
MaxTx == 1
\* Samples per second of the slowest and the fastest playback device.
MaxRate == 2
\* Samples the decode task pushes into one ring buffer.
MaxPushed == 6
\* Samples one call of the output callback asks for.
MaxAsk == 3
\* Frames the encoding task takes out of its buffer.
MaxFrames == 3
\* VoiceCommand values waiting in the command channel.
MaxCommands == 2
\* AudioDeviceError values waiting in the error channel.
MaxErrors == 1

Peers == {"alice", "bob"}
Rooms == {"room1"}
\* The n-th candidate held for a peer is named kn.
CandidateNames == <<"k1", "k2", "k3", "k4">>
Candidates == {CandidateNames[n] : n \in 1..MaxCandidates}

(* ------------------------------ values --------------------------------- *)

None == "null"
Sdp == "sdp"
Malformed == "bad"
Empty == ""

EmptyMap == [x \in {} |-> 0]

MapRemove(f, k) == [x \in DOMAIN f \ {k} |-> f[x]]

MapInsert(f, k, v) == [x \in DOMAIN f \cup {k} |-> IF x = k THEN v ELSE f[x]]

Count(s, e) == Cardinality({i \in DOMAIN s : s[i] = e})

\* VoiceEvent values, as the host receives them on event_tx.
Signal(target_id, signal_type, data) == <<"Signal", target_id, signal_type, data>>
Connecting == <<"Connecting">>
Connected == <<"Connected">>
Disconnected == <<"Disconnected">>
ConnectionFailed == <<"ConnectionFailed", "Failed to start microphone">>
PeerConnected(p) == <<"PeerConnected", p>>
PeerDisconnected(p) == <<"PeerDisconnected", p>>
PeerConnectionFailed(p) == <<"PeerConnectionFailed", p>>
MuteStateChanged(b) == <<"MuteStateChanged", IF b THEN "true" ELSE "false">>
TxActivity(b) == <<"TxActivity", IF b THEN "true" ELSE "false">>
AudioError == <<"AudioError", "Audio playback failed">>

\* InternalCmd values, as the callbacks post them.
CleanupPeer(p) == <<"CleanupPeer", p>>

(* ------------------------- the manager's state ------------------------- *)

\* A fresh RTCPeerConnection with the callbacks of create_peer_connection.
NewConn(p) ==
    [peer |-> p, closed |-> FALSE, state |-> "new",
     local |-> None, remote |-> None, candidates |-> <<>>, track |-> "none"]

VoiceManagerNew ==
    [room_id |-> None, is_joined |-> FALSE, is_muted |-> FALSE,
     local_track |-> FALSE,
     input_stream |-> FALSE, output_streams |-> {},
     peers |-> EmptyMap, pending_candidates |-> EmptyMap,
     conns |-> EmptyMap, internal |-> <<>>, events |-> <<>>,
     pc |-> "idle", arg |-> None, left |-> {}]

\* The channel of encoded packets that join_voice makes, no feed task yet.
FeedNew == [task |-> FALSE, encoded_rx |-> 0, packet |-> FALSE]

Emit(m, e) == [m EXCEPT !.events = Append(@, e)]

\* The RTCPeerConnection objects someone still holds: the registry, or an
\* on_track callback in flight.
Conns(m) == DOMAIN m.conns

\* The name of the next RTCPeerConnection object made for peer p: the first
\* name of the peer that no object bears.
NewId(m, p) ==
    CHOOSE c \in {<<p, n>> : n \in 1..(Cardinality(DOMAIN m.conns) + 1)} :
        /\ c \notin DOMAIN m.conns
        /\ \A n \in 1..(c[2] - 1) : <<p, n>> \in DOMAIN m.conns

(* ----------------------------- AudioEngine ----------------------------- *)

AudioReset(m) == [m EXCEPT !.input_stream = FALSE, !.output_streams = {}]

StartCapture(m) == [m EXCEPT !.input_stream = TRUE]

StartPlaybackForPeer(m, p) == [m EXCEPT !.output_streams = @ \cup {p}]

RemovePeerStream(m, p) == [m EXCEPT !.output_streams = @ \ {p}]

(* --------------------------- StatefulResampler ------------------------- *)

\* The sample rates start_capture asks the device for; the codec runs at the
\* first of them.
Rates == {48000, 24000, 16000, 12000, 8000}

\* fraction is counted in units of 1 / to_rate, so that adding the ratio
\* from_rate / to_rate adds from_rate; samples are whole numbers.
ResamplerNew(from, to) ==
    [from_rate |-> from, to_rate |-> to, last_sample |-> 0, fraction |-> 0,
     samples_to_drop |-> 0]

\* The loop of process: idx is relative to this buffer, -1 is last_sample.
\* An interpolated sample is in units of 1 / to_rate as well.
RECURSIVE ProcessLoop(_, _, _, _, _)
ProcessLoop(r, input, idx, fraction, output) ==
    IF idx + 1 >= Len(input) THEN [idx |-> idx, fraction |-> fraction, output |-> output]
    ELSE LET s0 == IF idx = -1 THEN r.last_sample ELSE input[idx + 1]
             s1 == input[idx + 2]
             val == s0 * r.to_rate + (s1 - s0) * fraction
             sum == fraction + r.from_rate
         IN ProcessLoop(r, input, idx + (sum \div r.to_rate), sum % r.to_rate,
                        Append(output, val))

\* Faulty variant: the phase starts over with every chunk.
PhaseReset(r, input, end) ==
    [r EXCEPT !.last_sample = IF input # <<>> THEN input[Len(input)] ELSE @,
              !.fraction = 0, !.samples_to_drop = 0]

\* Faulty variant: a call without samples forgets the last sample.
EmptyForgetsLast(r, input, end) ==
    [r EXCEPT !.last_sample = IF input # <<>> THEN input[Len(input)] ELSE 0,
              !.fraction = end.fraction,
              !.samples_to_drop = (end.idx - Len(input)) + 1]

\* Faulty variant: the skip count is one less than the loop left over.
DropOffByOne(r, input, end) ==
    [r EXCEPT !.last_sample = IF input # <<>> THEN input[Len(input)] ELSE @,
              !.fraction = end.fraction,
              !.samples_to_drop = end.idx - Len(input)]

\* The carry-over of process into the next call.
CarryOver(r, input, end) ==
    [r EXCEPT !.last_sample = IF input # <<>> THEN input[Len(input)] ELSE @,
              !.fraction = end.fraction,
              !.samples_to_drop = (end.idx - Len(input)) + 1]

\* Faulty variant: equal rates take the interpolation path.
NoShortcut(r) == FALSE

\* The rates of the resampler are equal.
SameRate(r) == r.from_rate = r.to_rate

\* process: the resampler after the call and the samples returned.
Process(r, input) ==
    IF SameRate(r) THEN [resampler |-> r, output |-> input]
    ELSE LET end == ProcessLoop(r, input, -1 + r.samples_to_drop, r.fraction, <<>>)
         IN [resampler |-> CarryOver(r, input, end), output |-> end.output]

\* The base indices the loop of process interpolates at, starting from idx.
RECURSIVE BaseIndices(_, _, _, _)
BaseIndices(r, input, idx, fraction) ==
    IF idx + 1 >= Len(input) THEN {}
    ELSE LET sum == fraction + r.from_rate
         IN {idx} \cup BaseIndices(r, input, idx + (sum \div r.to_rate),
                                   sum % r.to_rate)

\* The streams the resampler is run on: the n-th sample of each.
Waves == {"ramp", "square", "pulse"}

WaveSample(w, n) ==
    CASE w = "ramp" -> n
      [] w = "square" -> IF n % 2 = 1 THEN 2 ELSE -2
      [] OTHER -> IF n = 3 THEN 5 ELSE 0

\* The samples first .. last of a stream.
WaveChunk(w, first, last) ==
    [i \in 1..(last - first + 1) |-> WaveSample(w, first + i - 1)]

\* A stream with its resampler, nothing fed yet: fed counts the samples that
\* went in, chunk and out are the input and the result of the last call,
\* output is everything that came out.
StreamNew(w, from, to) ==
    [wave |-> w, resampler |-> ResamplerNew(from, to), fed |-> 0,
     chunk |-> <<>>, out |-> <<>>, output |-> <<>>, calls |-> 0]

NoStream == StreamNew(None, 48000, 48000)

\* The task of the stream receives the next len samples and resamples them.
StreamProcess(d, len) ==
    LET samples == WaveChunk(d.wave, d.fed + 1, d.fed + len)
        resampled == Process(d.resampler, samples)
    IN [d EXCEPT !.resampler = resampled.resampler, !.fed = @ + len,
                 !.chunk = samples, !.out = resampled.output,
                 !.output = @ \o resampled.output, !.calls = @ + 1]

(* -------------------------- RTCPeerConnection -------------------------- *)

\* on_peer_connection_state_change, state Disconnected or Closed.
OnStateGone(m, c) ==
    [Emit(m, PeerDisconnected(m.conns[c].peer))
        EXCEPT !.internal = Append(@, CleanupPeer(m.conns[c].peer))]

\* on_peer_connection_state_change, state Failed.
OnStateFailed(m, c) ==
    [Emit(m, PeerConnectionFailed(m.conns[c].peer))
        EXCEPT !.internal = Append(@, CleanupPeer(m.conns[c].peer))]

\* on_peer_connection_state_change, state Connected.
OnStateConnected(m, c) == Emit(m, PeerConnected(m.conns[c].peer))

\* A closed connection that an on_track callback in flight holds on to.
Closed(conn) ==
    [NewConn(conn.peer) EXCEPT !.closed = TRUE, !.state = "closed",
                               !.track = "checked"]

\* pc.close() on a connection taken out of the registry: the connection is
\* closed and the transport reports the state Closed to the state-change
\* callback (fire) or does not; the object is dropped with its last holder.
\* The name a connection of peer p goes by once it is closed and only a
\* callback holds it: closed connections of a peer are alike, and are named
\* behind the open one in the order they were closed.
LastId(m, p) == <<p, 1 + Cardinality({c \in DOMAIN m.conns : c[1] = p})>>

PcClose(m, c, fire) ==
    [(IF fire THEN OnStateGone(m, c) ELSE m) EXCEPT !.conns =
        IF @[c].track = "checked"
        THEN MapInsert(MapRemove(@, c), LastId(m, c[1]), Closed(@[c]))
        ELSE MapRemove(@, c)]

\* pc.set_remote_description(desc) succeeds: an offer on a connection with
\* no description yet, an answer on a connection that holds its own offer.
RemoteDescriptionFits(m, c, kind) ==
    /\ ~m.conns[c].closed
    /\ m.conns[c].remote = None
    /\ m.conns[c].local = (IF kind = "answer" THEN "offer" ELSE None)

SetRemoteDescription(m, c, kind) == [m EXCEPT !.conns[c].remote = kind]

SetLocalDescription(m, c, kind) == [m EXCEPT !.conns[c].local = kind]

\* pc.add_ice_candidate(candidate) succeeds only once the remote
\* description is set.
CandidateFits(m, c) == ~m.conns[c].closed /\ m.conns[c].remote # None

AddIceCandidate(m, c, k) ==
    IF CandidateFits(m, c)
    THEN [m EXCEPT !.conns[c].candidates = Append(@, k)]
    ELSE m

(* ------------------------------ join_voice ----------------------------- *)

\* Join dequeued; the Connecting event.
JoinBegin(m, room) ==
    [Emit(m, Connecting) EXCEPT !.pc = "join_reset", !.arg = room]

\* Faulty variant: the pending candidates of the old session outlive the Join.
JoinKeepsPending(m) ==
    [AudioReset(m) EXCEPT !.local_track = FALSE, !.pc = "join_drain"]

JoinReset(m) ==
    [AudioReset(m) EXCEPT !.local_track = FALSE,
                          !.pending_candidates = EmptyMap, !.pc = "join_drain"]

\* Faulty variant: the entry is dropped from the registry and is not closed.
JoinDrainDrops(m, p, fire) == [m EXCEPT !.peers = MapRemove(@, p)]

\* One turn of the drain loop over the registry.
JoinDrain(m, p, fire) ==
    PcClose([m EXCEPT !.peers = MapRemove(@, p)], m.peers[p], fire)

JoinMark(m) ==
    [m EXCEPT !.room_id = m.arg, !.is_joined = TRUE, !.arg = None,
              !.pc = "join_capture"]

\* Faulty variant: the failure is reported but the session stays marked joined.
FailedKeepsJoined(m) == [Emit(m, ConnectionFailed) EXCEPT !.pc = "idle"]

JoinCaptureFailed(m) ==
    [Emit([m EXCEPT !.is_joined = FALSE, !.room_id = None], ConnectionFailed)
        EXCEPT !.pc = "idle"]

\* Faulty variant: the result of start_capture is not looked at.
CaptureUnchecked(m, ok) ==
    [(IF ok THEN StartCapture(m) ELSE m) EXCEPT !.pc = "join_announce"]

JoinCapture(m, ok) ==
    IF ok THEN [StartCapture(m) EXCEPT !.pc = "join_announce"]
    ELSE JoinCaptureFailed(m)

\* Faulty variant: join_voice returns without a word on how it ended.
AnnounceUnreported(m) ==
    [Emit([m EXCEPT !.local_track = TRUE], Signal(None, "join_voice", ""))
        EXCEPT !.pc = "idle"]

JoinAnnounce(m) ==
    [Emit(Emit([m EXCEPT !.local_track = TRUE], Signal(None, "join_voice", "")),
          Connected)
        EXCEPT !.pc = "idle"]

(* ------------------------------ leave_voice ---------------------------- *)

\* Leave dequeued; the joined flag is cleared.
LeaveBegin(m) ==
    [m EXCEPT !.is_joined = FALSE, !.pc = "leave_notify",
              !.left = DOMAIN m.peers]

LeaveNotify(m) ==
    [(IF m.room_id # None THEN Emit(m, Signal(None, "leave_voice", "")) ELSE m)
        EXCEPT !.pc = "leave_reset"]

\* Faulty variant: the pending candidates outlive the Leave.
ResetKeepsPending(m) ==
    [AudioReset(m) EXCEPT !.local_track = FALSE, !.pc = "leave_drain"]

LeaveReset(m) ==
    [AudioReset(m) EXCEPT !.local_track = FALSE,
                          !.pending_candidates = EmptyMap, !.pc = "leave_drain"]

\* One turn of the drain loop over the registry.
LeaveDrain(m, p, fire) ==
    Emit(PcClose([m EXCEPT !.peers = MapRemove(@, p)], m.peers[p], fire),
         PeerDisconnected(p))

\* Faulty variant: the mute event is sent before the transmit event.
FinishMuteFirst(m) ==
    [Emit(Emit(Emit([m EXCEPT !.is_muted = FALSE, !.room_id = None],
                    MuteStateChanged(FALSE)), TxActivity(FALSE)), Disconnected)
        EXCEPT !.pc = "idle"]

LeaveFinish(m) ==
    [Emit(Emit(Emit([m EXCEPT !.is_muted = FALSE, !.room_id = None],
                    TxActivity(FALSE)), MuteStateChanged(FALSE)), Disconnected)
        EXCEPT !.pc = "idle"]

(* ------------------------ create_peer_connection ----------------------- *)

\* Close any existing peer connection to this user first.
\* Faulty variant: the connection the registry holds for the peer is kept.
KeepExisting(m, p, fire) == m

CloseExisting(m, p, fire) ==
    IF p \in DOMAIN m.peers
    THEN PcClose([m EXCEPT !.peers = MapRemove(@, p)], m.peers[p], fire)
    ELSE m

\* Build the connection, register its callbacks, insert it in the registry.
InsertNew(m, p) ==
    [m EXCEPT !.conns = MapInsert(@, NewId(m, p), NewConn(p)),
              !.peers = MapInsert(@, p, NewId(m, p))]

SendOffer(m, p) ==
    Emit(SetLocalDescription(m, m.peers[p], "offer"), Signal(p, "offer", Sdp))

CreatePeerConnection(m, p, initiate_offer, fire) ==
    LET m1 == InsertNew(RemovePeerStream(CloseExisting(m, p, fire), p), p) IN
    IF initiate_offer THEN SendOffer(m1, p) ELSE m1

(* ----------------------------- handle_signal --------------------------- *)

RECURSIVE AddBuffered(_, _, _)
AddBuffered(m, c, buffered) ==
    IF buffered = <<>> THEN m
    ELSE AddBuffered(AddIceCandidate(m, c, Head(buffered)), c, Tail(buffered))

\* Apply the candidates buffered for p to its connection, empty the buffer.
DrainPending(m, p) ==
    IF p \in DOMAIN m.pending_candidates
    THEN AddBuffered([m EXCEPT !.pending_candidates = MapRemove(@, p)],
                     m.peers[p], m.pending_candidates[p])
    ELSE m

SendAnswer(m, p) ==
    Emit(SetLocalDescription(m, m.peers[p], "answer"), Signal(p, "answer", Sdp))

\* Faulty variant: the newcomer gets a connection but no offer.
JoinVoiceNoOffer(m, p, fire) == CreatePeerConnection(m, p, FALSE, fire)

SignalJoinVoice(m, p, fire) == CreatePeerConnection(m, p, TRUE, fire)

\* Faulty variant: the buffer is drained before the remote description is set.
DrainBeforeDescription(m, p, data, fire) ==
    LET m1 == CreatePeerConnection(m, p, FALSE, fire)
    IN IF data = Malformed THEN m1
       ELSE SendAnswer(SetRemoteDescription(DrainPending(m1, p), m1.peers[p], "offer"), p)

SignalOffer(m, p, data, fire) ==
    LET m1 == CreatePeerConnection(m, p, FALSE, fire) IN
    IF data = Malformed THEN m1
    ELSE SendAnswer(DrainPending(SetRemoteDescription(m1, m1.peers[p], "offer"), p), p)

\* Faulty variant: an answer from a peer without an entry makes one.
AnswerMakesEntry(m, p, data) ==
    IF p \in DOMAIN m.peers THEN SetRemoteDescription(m, m.peers[p], "answer")
    ELSE InsertNew(m, p)

SignalAnswer(m, p, data) ==
    IF p \in DOMAIN m.peers /\ data # Malformed
       /\ RemoteDescriptionFits(m, m.peers[p], "answer")
    THEN SetRemoteDescription(m, m.peers[p], "answer")
    ELSE m

BufferCandidate(m, p, k) ==
    [m EXCEPT !.pending_candidates =
        MapInsert(@, p, Append(IF p \in DOMAIN @ THEN @[p] ELSE <<>>, k))]

\* Faulty variant: a candidate is buffered whether or not the peer has an entry.
BufferAlways(m, p, data) ==
    IF data = Malformed THEN m ELSE BufferCandidate(m, p, data)

\* Faulty variant: a candidate of a peer without an entry is discarded.
CandidateNeedsEntry(m, p, data) ==
    IF data # Malformed /\ p \in DOMAIN m.peers
    THEN AddIceCandidate(m, m.peers[p], data)
    ELSE m

SignalCandidate(m, p, data) ==
    IF data = Malformed THEN m
    ELSE IF p \in DOMAIN m.peers THEN AddIceCandidate(m, m.peers[p], data)
    ELSE BufferCandidate(m, p, data)

ForgetPeer(m, p, fire) ==
    [RemovePeerStream(CloseExisting(m, p, fire), p)
        EXCEPT !.pending_candidates = MapRemove(@, p)]

\* Faulty variant: the playback stream of the peer that left stays open.
LeaveVoiceKeepsStream(m, p, fire) ==
    Emit([CloseExisting(m, p, fire) EXCEPT !.pending_candidates = MapRemove(@, p)],
         PeerDisconnected(p))

SignalLeaveVoice(m, p, fire) == Emit(ForgetPeer(m, p, fire), PeerDisconnected(p))

SignalTypes == {"join_voice", "offer", "answer", "candidate", "leave_voice", "ping"}

\* The candidates of p the manager holds, buffered or applied.
Held(m, p) ==
    (IF p \in DOMAIN m.pending_candidates THEN m.pending_candidates[p] ELSE <<>>)
    \o (IF p \in DOMAIN m.peers THEN m.conns[m.peers[p]].candidates ELSE <<>>)

\* What a signal of each type carries.
SignalData(m, p, signal_type) ==
    CASE signal_type \in {"offer", "answer"} -> {Sdp, Malformed}
      [] signal_type = "candidate" ->
            {CandidateNames[n] : n \in {Len(Held(m, p)) + 1} \cap 1..MaxCandidates}
                \cup {Malformed}
      [] OTHER -> {Empty}

HandleSignal(m, p, signal_type, data, fire) ==
    CASE signal_type = "join_voice" -> SignalJoinVoice(m, p, fire)
      [] signal_type = "offer" -> SignalOffer(m, p, data, fire)
      [] signal_type = "answer" -> SignalAnswer(m, p, data)
      [] signal_type = "candidate" -> SignalCandidate(m, p, data)
      [] signal_type = "leave_voice" -> SignalLeaveVoice(m, p, fire)
      [] OTHER -> m

(* ------------------------- run: Mute, CleanupPeer ---------------------- *)

\* Faulty variant: muting stops the capture.
MuteStopsCapture(m, muted) ==
    Emit([(IF muted THEN AudioReset(m) ELSE m) EXCEPT !.is_muted = muted],
         MuteStateChanged(muted))

HandleMute(m, muted) ==
    Emit([m EXCEPT !.is_muted = muted], MuteStateChanged(muted))

\* Faulty variant: the playback stream of the peer outlives its connection.
CleanupKeepsStream(m, fire) ==
    LET p == Head(m.internal)[2] IN
    [CloseExisting([m EXCEPT !.internal = Tail(@)], p, fire)
        EXCEPT !.pending_candidates = MapRemove(@, p)]

HandleCleanupPeer(m, fire) ==
    LET p == Head(m.internal)[2] IN
    ForgetPeer([m EXCEPT !.internal = Tail(@)], p, fire)

\* The host takes the events off event_tx.
HostTakes(m) == [m EXCEPT !.events = <<>>, !.left = {}]

\* The run loop waits in select! and the host has taken every event.
Idle(m) == m.pc = "idle" /\ m.events = <<>> /\ m.left = {}

(* ------------------------------- callbacks ----------------------------- *)

\* The transport reports a new state of a negotiated, open connection.
StateAfter(state) ==
    CASE state = "new" -> {"connected", "failed"}
      [] state = "connected" -> {"disconnected", "failed"}
      [] OTHER -> {}

OnPeerConnectionStateChange(m, c, state) ==
    LET m1 == [m EXCEPT !.conns[c].state = state] IN
    CASE state = "connected" -> OnStateConnected(m1, c)
      [] state = "disconnected" -> OnStateGone(m1, c)
      [] state = "failed" -> OnStateFailed(m1, c)

\* on_track: the check of the joined flag.
OnTrackCheck(m, c) ==
    [m EXCEPT !.conns[c].track = IF m.is_joined THEN "checked" ELSE "done"]

\* on_track: the playback stream, under the audio-engine lock. The callback
\* of a closed connection drops it: the last of the peer's closed ones.
OnTrackPlayback(m, c, ok) ==
    LET p == m.conns[c].peer
        m1 == [m EXCEPT !.conns =
                    IF @[c].closed
                    THEN MapRemove(@, <<p, 1 + Cardinality({d \in DOMAIN m.conns :
                                                    d[1] = p /\ m.conns[d].closed})>>)
                    ELSE [@ EXCEPT ![c].track = "done"]] IN
    IF ok THEN StartPlaybackForPeer(m1, m.conns[c].peer) ELSE Emit(m1, AudioError)

(* ------------------------------ the mutexes --------------------------- *)

\* The steps of a task that matter to the mutexes: taking one (an await),
\* releasing one (the guard goes out of scope), and any other await.
Lock(x) == <<"lock", x>>

Unlock(x) == <<"unlock", x>>

Await(x) == <<"await", x>>

\* pc.close().await on the entry taken from the registry, if there was one.
CloseIf(entry) == IF entry THEN <<Await("close")>> ELSE <<>>

\* Faulty variant: CleanupPeer takes the audio engine before it closes the
\* connection and holds it across the close.
CleanupHoldsEngine(entry) ==
    <<Lock("peers"), Lock("audio_engine")>> \o CloseIf(entry)
        \o <<Unlock("audio_engine"), Unlock("peers")>>

\* run, InternalCmd::CleanupPeer: the guard on the registry lives to the end
\* of the match arm.
CleanupPeerSteps(entry) ==
    <<Lock("peers")>> \o CloseIf(entry)
        \o <<Lock("audio_engine"), Unlock("audio_engine"), Unlock("peers")>>

\* join_voice: reset, drain, start_capture.
JoinVoiceSteps(entry) ==
    <<Lock("audio_engine"), Unlock("audio_engine"), Lock("peers")>> \o CloseIf(entry)
        \o <<Unlock("peers"), Lock("audio_engine"), Unlock("audio_engine")>>

\* leave_voice: reset, drain.
LeaveVoiceSteps(entry) ==
    <<Lock("audio_engine"), Unlock("audio_engine"), Lock("peers")>> \o CloseIf(entry)
        \o <<Unlock("peers")>>

\* create_peer_connection: close the old entry, remove its stream, build the
\* connection, insert it, make the offer.
CreatePeerConnectionSteps(entry, initiate_offer) ==
    <<Lock("peers")>> \o CloseIf(entry)
        \o <<Unlock("peers"), Lock("audio_engine"), Unlock("audio_engine"),
             Await("new_peer_connection"), Await("add_track"),
             Lock("peers"), Unlock("peers")>>
        \o (IF initiate_offer
            THEN <<Await("create_offer"), Await("set_local_description")>>
            ELSE <<>>)

\* handle_signal, offer: after create_peer_connection.
OfferSteps(entry) ==
    CreatePeerConnectionSteps(entry, FALSE)
        \o <<Await("set_remote_description"), Await("add_ice_candidate"),
             Await("create_answer"), Await("set_local_description")>>

\* handle_signal, answer and candidate: the guard on the registry lives to
\* the end of the match arm.
AnswerSteps(entry) ==
    <<Lock("peers")>>
        \o (IF entry THEN <<Await("set_remote_description")>> ELSE <<>>)
        \o <<Unlock("peers")>>

CandidateSteps(entry) ==
    <<Lock("peers")>>
        \o (IF entry THEN <<Await("add_ice_candidate")>> ELSE <<>>)
        \o <<Unlock("peers")>>

\* handle_signal, leave_voice: the guard on the registry lives to the end of
\* the match arm.
LeaveVoiceSignalSteps(entry) ==
    <<Lock("peers")>> \o CloseIf(entry)
        \o <<Lock("audio_engine"), Unlock("audio_engine"), Unlock("peers")>>

\* What the run loop takes from its channels.
LoopKinds ==
    {"Join", "Leave", "CleanupPeer",
     "join_voice", "offer", "answer", "candidate", "leave_voice"}

Steps(kind, entry) ==
    CASE kind = "Join" -> JoinVoiceSteps(entry)
      [] kind = "Leave" -> LeaveVoiceSteps(entry)
      [] kind = "CleanupPeer" -> CleanupPeerSteps(entry)
      [] kind = "join_voice" -> CreatePeerConnectionSteps(entry, TRUE)
      [] kind = "offer" -> OfferSteps(entry)
      [] kind = "answer" -> AnswerSteps(entry)
      [] kind = "candidate" -> CandidateSteps(entry)
      [] kind = "leave_voice" -> LeaveVoiceSignalSteps(entry)

\* Whether the registry has an entry when the handler has returned.
EntryAfter(kind, entry) ==
    CASE kind \in {"join_voice", "offer"} -> TRUE
      [] kind \in {"answer", "candidate"} -> entry
      [] OTHER -> FALSE

\* Nobody holds a mutex, the run loop waits in select!, no callback runs;
\* the registry has no entry.
SyncNew ==
    [holder |-> [peers |-> None, audio_engine |-> None],
     run |-> None, at |-> 1, entry |-> FALSE, on_track |-> "none"]

\* The step the run loop is at, in the handler it is in.
StepOfRun(y) ==
    IF y.run # None /\ y.at <= Len(Steps(y.run, y.entry))
    THEN Steps(y.run, y.entry)[y.at] ELSE <<"none", None>>

(* ------------------------ the playback ring buffer --------------------- *)

\* start_playback: the bound of the ring buffer of a device of this rate.
max_buffer_samples(device_sample_rate) == device_sample_rate * 2

\* The ring buffer of a stream, nothing pushed yet: the n-th sample pushed is
\* the number n, pushed counts them, data is what the last output callback
\* wrote.
RingNew(device_sample_rate) ==
    [rate |-> device_sample_rate, buffer |-> <<>>, pushed |-> 0, data |-> <<>>]

\* Faulty variant: the excess is cut off at the newest end.
PushDropsNewest(r, len) ==
    LET extended == r.buffer \o [i \in 1..len |-> r.pushed + i]
        max == max_buffer_samples(r.rate)
    IN [r EXCEPT !.pushed = @ + len,
                 !.buffer = IF Len(extended) > max
                            THEN SubSeq(extended, 1, max) ELSE extended]

\* The decode task with the next len resampled samples: extend, then drain
\* what is over the bound from the front.
DecodePush(r, len) ==
    LET extended == r.buffer \o [i \in 1..len |-> r.pushed + i]
        max == max_buffer_samples(r.rate)
        drain_count == Len(extended) - max
    IN [r EXCEPT !.pushed = @ + len,
                 !.buffer = IF Len(extended) > max
                            THEN SubSeq(extended, drain_count + 1, Len(extended))
                            ELSE extended]

\* The loop of the output callback: pop_front into data until data is full or
\* the buffer is empty.
RECURSIVE PopLoop(_, _, _)
PopLoop(buffer, data, n) ==
    IF Len(data) < n /\ buffer # <<>>
    THEN PopLoop(Tail(buffer), Append(data, Head(buffer)), n)
    ELSE [buffer |-> buffer, data |-> data]

\* Silence, as the output callback writes it.
Silence == 0

\* Faulty variant: the callback copies the samples and leaves them buffered.
CallbackKeeps(r, n) ==
    LET popped == PopLoop(r.buffer, <<>>, n)
    IN [r EXCEPT !.data = popped.data
                    \o [i \in 1..(n - Len(popped.data)) |-> Silence]]

\* The output callback of the device for n samples.
OutputCallback(r, n) ==
    LET popped == PopLoop(r.buffer, <<>>, n)
    IN [r EXCEPT !.buffer = popped.buffer,
                 !.data = popped.data
                    \o [i \in 1..(n - Len(popped.data)) |-> Silence]]

(* ------------------------ the capture encoding task -------------------- *)

frame_size_48k == (48000 * 20) \div 1000

\* The encoding task before its first chunk: the n-th sample out of the
\* resampler is the number n, resampled counts them, passed counts those
\* handed to the encoder, frames are the frames of the last chunk.
CaptureNew ==
    [buffer |-> <<>>, resampled |-> 0, passed |-> 0, frames |-> <<>>,
     running |-> TRUE]

\* One turn of the inner loop: a frame is drained and encoded.
TakeFrame(c) ==
    [c EXCEPT !.frames = Append(@, SubSeq(c.buffer, 1, frame_size_48k)),
              !.buffer = SubSeq(@, frame_size_48k + 1, Len(@)),
              !.passed = @ + frame_size_48k]

\* Faulty variant: one frame at most is taken per chunk.
FrameOnce(c, open) ==
    IF Len(c.buffer) >= frame_size_48k
    THEN [TakeFrame(c) EXCEPT !.running = open]
    ELSE c

\* The inner loop: while a frame is buffered it is taken; the task returns
\* when the receiver of the packets is gone.
RECURSIVE FrameLoop(_, _)
FrameLoop(c, open) ==
    IF Len(c.buffer) >= frame_size_48k
    THEN IF open THEN FrameLoop(TakeFrame(c), open)
         ELSE [TakeFrame(c) EXCEPT !.running = FALSE]
    ELSE c

\* The encoding task with the next len resampled samples.
EncodeChunk(c, len, open) ==
    FrameLoop([c EXCEPT !.buffer = @ \o [i \in 1..len |-> c.resampled + i],
                        !.resampled = @ + len, !.frames = <<>>], open)

(* --------------------------- the select! of run ------------------------ *)

\* The three channels of run after new: the host holds the command sender,
\* the manager itself holds internal_tx, the audio engine was given the
\* error sender; nothing is queued and run has not returned.
SelectNew ==
    [command_rx |-> <<>>, command_tx |-> TRUE,
     internal_rx |-> 0, internal_tx |-> TRUE,
     audio_error_rx |-> 0, audio_error_tx |-> TRUE,
     handled |-> None, returned |-> FALSE]

\* recv of an unbounded channel: a value, None when it is closed and empty,
\* and no completion otherwise.
Recv(queued, open) ==
    IF queued THEN "some" ELSE IF open THEN "pending" ELSE "none"

RecvOf(s, branch) ==
    CASE branch = "command" -> Recv(s.command_rx # <<>>, s.command_tx)
      [] branch = "internal" -> Recv(s.internal_rx > 0, s.internal_tx)
      [] branch = "audio_error" -> Recv(s.audio_error_rx > 0, s.audio_error_tx)

Branches == {"command", "internal", "audio_error"}

\* The branches select! can complete with: one whose recv gave a value, or
\* else when every recv gave None.
Ready(s) ==
    {b \in Branches : RecvOf(s, b) = "some"}
        \cup (IF \A b \in Branches : RecvOf(s, b) = "none" THEN {"else"} ELSE {})

\* One turn of the loop of run with the branch select! completed with.
SelectTakes(s, branch) ==
    CASE branch = "command" ->
            [s EXCEPT !.command_rx = Tail(@), !.handled = Head(s.command_rx)]
      [] branch = "internal" ->
            [s EXCEPT !.internal_rx = @ - 1, !.handled = "CleanupPeer"]
      [] branch = "audio_error" ->
            [s EXCEPT !.audio_error_rx = @ - 1, !.handled = "AudioError"]
      [] branch = "else" -> [s EXCEPT !.returned = TRUE]

(* ------------------------------- actions ------------------------------- *)

\* The state-change callback posts into the internal channel.
Room(m, fire) == fire => Len(m.internal) < MaxInternal

\* The connection of p that create_peer_connection closes and drops.
Replaced(m, p) ==
    {c \in DOMAIN m.conns :
        p \in DOMAIN m.peers /\ m.peers[p] = c /\ m.conns[c].track # "checked"}

\* The bound of the model on the connections that exist at a time.
Fits(m, p, signal_type) ==
    signal_type \in {"join_voice", "offer"} =>
        Cardinality(DOMAIN m.conns \ Replaced(m, p)) < MaxConns

Join ==
    \E room \in Rooms :
        /\ Idle(vm)
        /\ vm' = JoinBegin(vm, room)
        /\ UNCHANGED <<mesh, feed, dsp, sync, play, cap, sel>>

JoinStep ==
    \/ vm.pc = "join_reset" /\ vm' = JoinReset(vm) /\ UNCHANGED <<mesh, feed, dsp, sync, play, cap, sel>>
    \/ /\ vm.pc = "join_drain"
       /\ \E p \in DOMAIN vm.peers, fire \in BOOLEAN :
            Room(vm, fire) /\ vm' = JoinDrain(vm, p, fire)
       /\ UNCHANGED <<mesh, feed, dsp, sync, play, cap, sel>>
    \/ /\ vm.pc = "join_drain" /\ DOMAIN vm.peers = {}
       /\ vm' = JoinMark(vm) /\ UNCHANGED <<mesh, feed, dsp, sync, play, cap, sel>>
    \/ /\ vm.pc = "join_capture"
       /\ \E ok \in BOOLEAN : vm' = JoinCapture(vm, ok)
       /\ UNCHANGED <<mesh, feed, dsp, sync, play, cap, sel>>
    \/ vm.pc = "join_announce" /\ vm' = JoinAnnounce(vm) /\ UNCHANGED <<mesh, feed, dsp, sync, play, cap, sel>>

Leave ==
    /\ Idle(vm)
    /\ vm' = LeaveBegin(vm)
    /\ UNCHANGED <<mesh, feed, dsp, sync, play, cap, sel>>

LeaveStep ==
    \/ vm.pc = "leave_notify" /\ vm' = LeaveNotify(vm) /\ UNCHANGED <<mesh, feed, dsp, sync, play, cap, sel>>
    \/ vm.pc = "leave_reset" /\ vm' = LeaveReset(vm) /\ UNCHANGED <<mesh, feed, dsp, sync, play, cap, sel>>
    \/ /\ vm.pc = "leave_drain"
       /\ \E p \in DOMAIN vm.peers, fire \in BOOLEAN :
            Room(vm, fire) /\ vm' = LeaveDrain(vm, p, fire)
       /\ UNCHANGED <<mesh, feed, dsp, sync, play, cap, sel>>
    \/ /\ vm.pc = "leave_drain" /\ DOMAIN vm.peers = {}
       /\ vm' = LeaveFinish(vm) /\ UNCHANGED <<mesh, feed, dsp, sync, play, cap, sel>>

Mute ==
    \E muted \in BOOLEAN :
        /\ Idle(vm)
        /\ vm' = HandleMute(vm, muted)
        /\ UNCHANGED <<mesh, feed, dsp, sync, play, cap, sel>>

SignalFrom(p, signal_type, data, fire) ==
    /\ Idle(vm)
    /\ Fits(vm, p, signal_type)
    /\ Room(vm, fire)
    /\ vm' = HandleSignal(vm, p, signal_type, data, fire)
    /\ UNCHANGED <<mesh, feed, dsp, sync, play, cap, sel>>

SignalIn ==
    \E p \in Peers, signal_type \in SignalTypes, fire \in BOOLEAN :
        \E data \in SignalData(vm, p, signal_type) :
            SignalFrom(p, signal_type, data, fire)

\* The signals of peers that negotiate well-formed sessions.
SignalMedia ==
    \E p \in Peers, signal_type \in {"join_voice", "offer", "answer", "leave_voice"} :
        \E fire \in BOOLEAN :
            SignalFrom(p, signal_type, IF signal_type \in {"offer", "answer"}
                                       THEN Sdp ELSE Empty, fire)

Internal ==
    \E fire \in BOOLEAN :
        /\ Idle(vm)
        /\ vm.internal # <<>>
        /\ vm' = HandleCleanupPeer(vm, fire)
        /\ UNCHANGED <<mesh, feed, dsp, sync, play, cap, sel>>

Host ==
    /\ vm.pc = "idle"
    /\ vm.events # <<>> \/ vm.left # {}
    /\ vm' = HostTakes(vm)
    /\ UNCHANGED <<mesh, feed, dsp, sync, play, cap, sel>>

\* A report of the transport only sends an event and posts CleanupPeer, which
\* the run loop reads between handlers: the reports are taken between handlers.
StateChange ==
    \E c \in Conns(vm) :
        /\ Idle(vm)
        /\ ~vm.conns[c].closed
        /\ vm.conns[c].local # None /\ vm.conns[c].remote # None
        /\ \E state \in StateAfter(vm.conns[c].state) :
            /\ Room(vm, state # "connected")
            /\ vm' = OnPeerConnectionStateChange(vm, c, state)
        /\ UNCHANGED <<mesh, feed, dsp, sync, play, cap, sel>>

\* on_track runs on the transport's tasks, at any point of a handler.
OnTrack ==
    \E c \in Conns(vm) :
        /\ vm.pc = "idle" => Idle(vm)
        /\ \/ /\ vm.conns[c].track = "none"
              /\ ~vm.conns[c].closed /\ vm.conns[c].remote # None
              /\ vm' = OnTrackCheck(vm, c)
           \/ /\ vm.conns[c].track = "checked"
              /\ \E ok \in BOOLEAN : vm' = OnTrackPlayback(vm, c, ok)
        /\ UNCHANGED <<mesh, feed, dsp, sync, play, cap, sel>>

(* --------------------------- the mesh of a room ------------------------ *)

RECURSIVE JoinDrainAll(_, _)
JoinDrainAll(m, fire) ==
    IF DOMAIN m.peers = {} THEN m
    ELSE JoinDrainAll(JoinDrain(m, CHOOSE p \in DOMAIN m.peers : TRUE, fire), fire)

\* join_voice from the Connecting event to its return.
JoinVoice(m, room, ok, fire) ==
    LET m1 == JoinCapture(JoinMark(JoinDrainAll(JoinReset(JoinBegin(m, room)), fire)), ok)
    IN IF m1.pc = "join_announce" THEN JoinAnnounce(m1) ELSE m1

RECURSIVE LeaveDrainAll(_, _)
LeaveDrainAll(m, fire) ==
    IF DOMAIN m.peers = {} THEN m
    ELSE LeaveDrainAll(LeaveDrain(m, CHOOSE p \in DOMAIN m.peers : TRUE, fire), fire)

\* leave_voice from the cleared joined flag to its return.
LeaveVoice(m, fire) ==
    LeaveFinish(LeaveDrainAll(LeaveReset(LeaveNotify(LeaveBegin(m))), fire))

\* The host forwards the Signal events of member x to the relay, which fills
\* in the sender and delivers to the target, or to every other member.
RECURSIVE Relay(_, _, _)
Relay(inbox, x, events) ==
    IF events = <<>> THEN inbox
    ELSE LET e == Head(events)
             to == IF e[1] # "Signal" THEN {}
                   ELSE IF e[2] = None THEN Peers \ {x} ELSE {e[2]}
         IN Relay([y \in Peers |-> IF y \in to
                                   THEN Append(inbox[y], <<x, e[3], e[4]>>)
                                   ELSE inbox[y]],
                  x, Tail(events))

\* Member x has run a handler to its return: its signals go out.
Handled(x, m) ==
    [vm |-> [mesh.vm EXCEPT ![x] = HostTakes(m)],
     inbox |-> Relay(mesh.inbox, x, m.events)]

MeshNew == [vm |-> [x \in Peers |-> VoiceManagerNew],
            inbox |-> [x \in Peers |-> <<>>]]

\* The relay holds no more than MaxInbox signals for a member.
InboxFits == \A x \in Peers : Len(mesh.inbox[x]) < MaxInbox

MeshJoin ==
    \E x \in Peers, room \in Rooms :
        /\ ~mesh.vm[x].is_joined
        /\ InboxFits
        /\ mesh' = Handled(x, JoinVoice(mesh.vm[x], room, TRUE, FALSE))
        /\ UNCHANGED <<vm, feed, dsp, sync, play, cap, sel>>

MeshLeave ==
    \E x \in Peers :
        /\ mesh.vm[x].is_joined
        /\ InboxFits
        /\ mesh' = Handled(x, LeaveVoice(mesh.vm[x], FALSE))
        /\ UNCHANGED <<vm, feed, dsp, sync, play, cap, sel>>

MeshSignal ==
    \E x \in Peers :
        /\ mesh.inbox[x] # <<>>
        /\ InboxFits
        /\ LET s == Head(mesh.inbox[x]) IN
            /\ Fits(mesh.vm[x], s[1], s[2])
            /\ mesh' = [Handled(x, HandleSignal(mesh.vm[x], s[1], s[2], s[3], FALSE))
                            EXCEPT !.inbox[x] = Tail(@)]
        /\ UNCHANGED <<vm, feed, dsp, sync, play, cap, sel>>

\* No room: no manager but vm, and no relay.
NoMesh == [vm |-> EmptyMap, inbox |-> EmptyMap]

\* A manager on its own, in a room without members.
Init ==
    /\ vm = VoiceManagerNew /\ mesh = NoMesh /\ feed = FeedNew /\ dsp = NoStream
    /\ sync = SyncNew /\ play = RingNew(0) /\ cap = CaptureNew /\ sel = SelectNew

\* A manager for every member of the room.
InitMesh ==
    /\ vm = VoiceManagerNew /\ mesh = MeshNew /\ feed = FeedNew /\ dsp = NoStream
    /\ sync = SyncNew /\ play = RingNew(0) /\ cap = CaptureNew /\ sel = SelectNew

Next ==
    \/ Join \/ JoinStep \/ Leave \/ LeaveStep \/ Mute \/ SignalIn \/ Internal
    \/ Host \/ StateChange

Spec == Init /\ [][Next]_vars

NextMedia ==
    \/ Join \/ JoinStep \/ Leave \/ LeaveStep \/ SignalMedia \/ Internal
    \/ Host \/ StateChange \/ OnTrack

SpecMedia == Init /\ [][NextMedia]_vars

\* SpecMedia with a run loop that keeps running: a handler that has begun
\* runs to its return, the host takes what is sent to it, and select! polls
\* its branches in random order, so that the internal channel is read again
\* and again while it holds an instruction.
SpecCleanup ==
    /\ Init /\ [][NextMedia]_vars
    /\ WF_vars(JoinStep) /\ WF_vars(LeaveStep) /\ WF_vars(Host)
    /\ SF_vars(Internal)

NextMesh == MeshJoin \/ MeshLeave \/ MeshSignal

SpecMesh == InitMesh /\ [][NextMesh]_vars

(* ------------------------- the capture pipeline ----------------------- *)

\* join_voice with the feed task it spawns.
JoinFeed ==
    \/ vm.pc # "join_announce" /\ JoinStep
    \/ /\ vm.pc = "join_announce"
       /\ vm' = JoinAnnounce(vm)
       /\ feed' = [feed EXCEPT !.task = TRUE]
       /\ UNCHANGED <<mesh, dsp, sync, play, cap, sel>>

\* The encoding task has a full frame and sends the packet.
Encode ==
    /\ vm.input_stream
    /\ feed.encoded_rx < MaxPackets
    /\ feed' = [feed EXCEPT !.encoded_rx = @ + 1]
    /\ UNCHANGED <<vm, mesh, dsp, sync, play, cap, sel>>

\* The feed task: recv, with the look at the mute flag; TxActivity(true)
\* and write_sample; the end of the loop when the channel is closed.
FeedTask ==
    \/ /\ feed.task /\ ~feed.packet /\ feed.encoded_rx > 0
       /\ feed' = [feed EXCEPT !.encoded_rx = @ - 1, !.packet = ~vm.is_muted]
       /\ UNCHANGED <<vm, mesh, dsp, sync, play, cap, sel>>
    \/ /\ feed.task /\ feed.packet
       /\ Count(vm.events, TxActivity(TRUE)) < MaxTx
       /\ vm' = Emit(vm, TxActivity(TRUE))
       /\ feed' = [feed EXCEPT !.packet = FALSE]
       /\ UNCHANGED <<mesh, dsp, sync, play, cap, sel>>
    \/ /\ feed.task /\ ~feed.packet /\ feed.encoded_rx = 0
       /\ ~vm.input_stream
       /\ feed' = [feed EXCEPT !.task = FALSE]
       /\ UNCHANGED <<vm, mesh, dsp, sync, play, cap, sel>>

\* The peers of the room come and go, and send their candidates.
SignalFeed ==
    \E p \in Peers, signal_type \in {"join_voice", "candidate", "leave_voice"} :
        \E data \in SignalData(vm, p, signal_type) \ {Malformed}, fire \in BOOLEAN :
            SignalFrom(p, signal_type, data, fire)

NextFeed ==
    \/ Join \/ JoinFeed \/ Leave \/ LeaveStep \/ Mute \/ SignalFeed \/ Internal
    \/ Host \/ Encode \/ FeedTask

SpecFeed == Init /\ [][NextFeed]_vars

\* SpecFeed with a join_voice that runs to its return: the mutexes it waits
\* for are let go and the closes it awaits complete.
SpecJoin == Init /\ [][NextFeed]_vars /\ WF_vars(JoinFeed)

(* ----------------------- the resampler of a stream --------------------- *)

ResamplerProcess ==
    \E len \in 0..MaxInput :
        /\ dsp.wave # None
        /\ dsp.calls < MaxCalls
        /\ dsp.fed + len <= MaxInput
        /\ dsp' = StreamProcess(dsp, len)
        /\ UNCHANGED <<vm, mesh, feed, sync, play, cap, sel>>

\* A stream of any of the waves, between any two of the rates.
InitResampler ==
    /\ vm = VoiceManagerNew /\ mesh = NoMesh /\ feed = FeedNew /\ sync = SyncNew
    /\ play = RingNew(0) /\ cap = CaptureNew /\ sel = SelectNew
    /\ dsp \in {StreamNew(w, from, to) : w \in Waves, from \in Rates, to \in Rates}

SpecResampler == InitResampler /\ [][ResamplerProcess]_vars

(* ------------------------- the tasks at the mutexes -------------------- *)

\* The run loop takes a command, a signal or an internal instruction.
LoopTakes ==
    \E kind \in LoopKinds :
        /\ sync.run = None
        /\ sync' = [sync EXCEPT !.run = kind, !.at = 1]
        /\ UNCHANGED <<vm, mesh, feed, dsp, play, cap, sel>>

\* The next step of the handler: a mutex is taken when it is free.
LoopStep ==
    /\ sync.run # None
    /\ LET step == StepOfRun(sync) IN
        \/ /\ step[1] = "lock" /\ sync.holder[step[2]] = None
           /\ sync' = [sync EXCEPT !.holder[step[2]] = "run", !.at = @ + 1]
        \/ /\ step[1] = "unlock"
           /\ sync' = [sync EXCEPT !.holder[step[2]] = None, !.at = @ + 1]
        \/ /\ step[1] = "await"
           /\ sync' = [sync EXCEPT !.at = @ + 1]
        \/ /\ step[1] = "none"
           /\ sync' = [sync EXCEPT !.run = None, !.at = 1,
                                   !.entry = EntryAfter(sync.run, @)]
    /\ UNCHANGED <<vm, mesh, feed, dsp, play, cap, sel>>

\* on_track of a connection: past the check of the joined flag it waits for
\* the audio-engine mutex, starts the playback under it and lets it go.
OnTrackLock ==
    /\ \/ /\ sync.on_track = "none" /\ sync.entry
          /\ sync' = [sync EXCEPT !.on_track = "wait"]
       \/ /\ sync.on_track = "wait" /\ sync.holder["audio_engine"] = None
          /\ sync' = [sync EXCEPT !.on_track = "locked",
                                  !.holder["audio_engine"] = "on_track"]
       \/ /\ sync.on_track = "locked"
          /\ sync' = [sync EXCEPT !.on_track = "none",
                                  !.holder["audio_engine"] = None]
    /\ UNCHANGED <<vm, mesh, feed, dsp, play, cap, sel>>

NextLocks == LoopTakes \/ LoopStep \/ OnTrackLock

SpecLocks == Init /\ [][NextLocks]_vars

(* ------------------------- the playback of a stream -------------------- *)

\* The decode task has decoded and resampled a packet and pushes it.
Decode ==
    \E len \in 0..max_buffer_samples(play.rate) :
        /\ play.pushed + len <= MaxPushed
        /\ play' = DecodePush(play, len)
        /\ UNCHANGED <<vm, mesh, feed, dsp, sync, cap, sel>>

\* The device asks for samples, whatever the buffer holds.
Output ==
    \E n \in 1..MaxAsk :
        /\ play' = OutputCallback(play, n)
        /\ UNCHANGED <<vm, mesh, feed, dsp, sync, cap, sel>>

\* A playback stream on a device of any of the rates.
InitPlayback ==
    /\ vm = VoiceManagerNew /\ mesh = NoMesh /\ feed = FeedNew /\ dsp = NoStream
    /\ sync = SyncNew /\ cap = CaptureNew /\ sel = SelectNew
    /\ play \in {RingNew(rate) : rate \in 1..MaxRate}

SpecPlayback == InitPlayback /\ [][Decode \/ Output]_vars

(* ------------------------- the capture of the session ------------------ *)

\* The lengths of the chunks that come out of the resampler.
ChunkLens == {0, 1, 479, 480, 959, 960, 961, 1920, 1921}

\* The encoding task takes the next chunk of the device.
EncodeTask ==
    \E len \in ChunkLens, open \in BOOLEAN :
        /\ cap.running
        /\ cap.resampled + len < (MaxFrames + 1) * frame_size_48k
        /\ cap' = EncodeChunk(cap, len, open)
        /\ UNCHANGED <<vm, mesh, feed, dsp, sync, play, sel>>

SpecCapture == Init /\ [][EncodeTask]_vars

(* ---------------------------- the loop of run -------------------------- *)

\* The host sends a command.
HostSends ==
    \E kind \in {"Join", "Leave", "Mute", "Signal"} :
        /\ sel.command_tx /\ ~sel.returned
        /\ Len(sel.command_rx) < MaxCommands
        /\ sel' = [sel EXCEPT !.command_rx = Append(@, kind)]
        /\ UNCHANGED <<vm, mesh, feed, dsp, sync, play, cap>>

\* The host drops every command sender.
HostCloses ==
    /\ sel.command_tx
    /\ sel' = [sel EXCEPT !.command_tx = FALSE]
    /\ UNCHANGED <<vm, mesh, feed, dsp, sync, play, cap>>

\* A state-change callback posts CleanupPeer on its clone of internal_tx.
CallbackPosts ==
    /\ sel.internal_tx /\ sel.internal_rx < MaxInternal
    /\ sel' = [sel EXCEPT !.internal_rx = @ + 1]
    /\ UNCHANGED <<vm, mesh, feed, dsp, sync, play, cap>>

\* A device reports an error on the sender the audio engine holds.
DeviceFails ==
    /\ sel.audio_error_tx /\ sel.audio_error_rx < MaxErrors
    /\ sel' = [sel EXCEPT !.audio_error_rx = @ + 1]
    /\ UNCHANGED <<vm, mesh, feed, dsp, sync, play, cap>>

\* select! completes with a branch and the loop handles it.
RunSelect ==
    \E branch \in Ready(sel) :
        /\ ~sel.returned
        /\ sel' = SelectTakes(sel, branch)
        /\ UNCHANGED <<vm, mesh, feed, dsp, sync, play, cap>>

NextRun == HostSends \/ HostCloses \/ CallbackPosts \/ DeviceFails \/ RunSelect

\* The loop of run keeps polling: a branch that can complete does.
SpecRun == Init /\ [][NextRun]_vars /\ WF_vars(RunSelect)

(* ------------------------------ properties ----------------------------- *)

Range(s) == {s[i] : i \in DOMAIN s}

IsPrefix(s, t) == Len(s) <= Len(t) /\ SubSeq(t, 1, Len(s)) = s

IsSignal(e) == e[1] = "Signal"

IsSessionEvent(e) ==
    e[1] \notin {"PeerConnected", "PeerDisconnected", "PeerConnectionFailed", "AudioError"}

\* The Signal events not yet taken by the host.
Signals(m) == SelectSeq(m.events, IsSignal)

\* The events not yet taken by the host, less those about single peers.
SessionEvents(m) == SelectSeq(m.events, IsSessionEvent)

\* The open connections made for peer p.
LiveConns(m, p) == {c \in Conns(m) : ~m.conns[c].closed /\ m.conns[c].peer = p}

JoinPcs == {"join_reset", "join_drain", "join_capture", "join_announce"}

\* C1: at every moment the open connections of a peer are exactly the one
\* the registry holds for it, or none when the registry has no entry: a
\* join_voice or offer from a peer with an entry has closed and discarded the
\* old connection when the new one is in the registry.
OneConnectionPerPeer ==
    \A p \in Peers :
        LiveConns(vm, p) = IF p \in DOMAIN vm.peers THEN {vm.peers[p]} ELSE {}

\* One handler closed the connection of a peer, which reported it, and put
\* a new connection for the peer into the registry with an offer.
ConnectionReplaced ==
    \E p \in Peers :
        /\ vm.events = <<PeerDisconnected(p), Signal(p, "offer", Sdp)>>
        /\ p \in DOMAIN vm.peers
        /\ vm.conns[vm.peers[p]] = [NewConn(p) EXCEPT !.local = "offer"]

\* C2: wherever the run loop takes a well-formed offer from a peer, the
\* handler applies the candidates buffered for the peer, all of them and in
\* arrival order, to the peer's new connection after the remote description
\* is set, and leaves no buffer for the peer; and wherever it takes a later
\* candidate of a peer with an entry, the candidates the connection holds
\* stay where they are, the new one going after them.
BufferedCandidatesApplied ==
    Idle(vm) =>
    \A p \in Peers :
        /\ \A fire \in BOOLEAN :
            Fits(vm, p, "offer") /\ Room(vm, fire) =>
                LET m == HandleSignal(vm, p, "offer", Sdp, fire) IN
                /\ p \notin DOMAIN m.pending_candidates
                /\ p \in DOMAIN m.peers
                /\ m.conns[m.peers[p]].remote = "offer"
                /\ m.conns[m.peers[p]].candidates =
                       IF p \in DOMAIN vm.pending_candidates
                       THEN vm.pending_candidates[p] ELSE <<>>
        /\ \A k \in SignalData(vm, p, "candidate") \ {Malformed} :
            p \in DOMAIN vm.peers =>
                LET m == HandleSignal(vm, p, "candidate", k, FALSE) IN
                /\ m.peers = vm.peers
                /\ IsPrefix(vm.conns[vm.peers[p]].candidates,
                            m.conns[vm.peers[p]].candidates)

\* An offer has just been answered and the new connection holds the two
\* candidates that were buffered, in the order of their arrival.
TwoBufferedApplied ==
    \E p \in Peers :
        /\ vm.events = <<Signal(p, "answer", Sdp)>>
        /\ p \in DOMAIN vm.peers /\ p \notin DOMAIN vm.pending_candidates
        /\ vm.conns[vm.peers[p]].candidates = <<"k1", "k2">>

\* C3: a Join whose capture starts emits Connecting, then one join_voice
\* Signal with null target and empty data, then Connected, each once; until
\* its last step nothing but Connecting is emitted and between the reset and
\* the capture step no capture runs, and when Connected is emitted capture
\* runs and the session is marked joined in the room.
JoinSucceeds ==
    /\ vm.pc \in JoinPcs => SessionEvents(vm) = <<Connecting>>
    /\ vm.pc \in {"join_drain", "join_capture"} => ~vm.input_stream
    /\ Connected \in Range(vm.events) =>
        /\ SessionEvents(vm) = <<Connecting, Signal(None, "join_voice", Empty), Connected>>
        /\ vm.input_stream /\ vm.local_track
        /\ vm.is_joined /\ vm.room_id \in Rooms

\* A Join has returned with Connected.
JoinedNow == vm.pc = "idle" /\ Connected \in Range(vm.events) /\ vm.is_joined

\* C4: a Join whose capture fails emits Connecting and ConnectionFailed and
\* nothing else for the session: no Connected, no Signal; the session is not
\* joined, has no room id and no capture stream.
JoinFails ==
    ConnectionFailed \in Range(vm.events) =>
        /\ SessionEvents(vm) = <<Connecting, ConnectionFailed>>
        /\ Signals(vm) = <<>>
        /\ ~vm.is_joined /\ vm.room_id = None
        /\ ~vm.input_stream /\ ~vm.local_track

\* A Join has returned with ConnectionFailed.
JoinFailedNow == vm.pc = "idle" /\ ConnectionFailed \in Range(vm.events)

\* C5: join_voice from a peer while the session is joined puts a new
\* connection, open and with nothing but its own offer set, into the registry
\* for the peer and emits one Signal, an offer
\* targeted at the peer; no step of a local Join creates a connection or
\* emits an offer.
JoinVoiceOffers ==
    [][/\ \A p \in Peers, fire \in BOOLEAN :
            vm.is_joined /\ SignalFrom(p, "join_voice", Empty, fire) =>
                /\ p \in DOMAIN vm'.peers
                /\ vm'.conns[vm'.peers[p]] = [NewConn(p) EXCEPT !.local = "offer"]
                /\ Signals(vm') = <<Signal(p, "offer", Sdp)>>
       /\ vm.pc \in JoinPcs \/ vm'.pc \in JoinPcs =>
                /\ \A c \in Conns(vm') : c \in Conns(vm) /\ vm'.conns[c] = vm.conns[c]
                /\ \A i \in DOMAIN vm'.events :
                        IsSignal(vm'.events[i]) => vm'.events[i][3] # "offer"
      ]_vars

\* The joined session has just offered to a newcomer.
OfferedWhileJoined ==
    \E p \in Peers :
        /\ vm.is_joined
        /\ vm.events = <<Signal(p, "offer", Sdp)>>
        /\ p \in DOMAIN vm.peers /\ vm.conns[vm.peers[p]].local = "offer"

\* C6: wherever the run loop takes a well-formed offer from a peer, the
\* handler emits one Signal, an answer targeted at the peer, and no offer;
\* and wherever it takes a candidate from a peer whose offer was answered, the
\* candidate is added to the peer's connection and is not buffered.
OfferAnswered ==
    Idle(vm) =>
    \A p \in Peers :
        /\ \A fire \in BOOLEAN :
            Fits(vm, p, "offer") /\ Room(vm, fire) =>
                LET m == HandleSignal(vm, p, "offer", Sdp, fire) IN
                /\ Signals(m) = <<Signal(p, "answer", Sdp)>>
                /\ m.conns[m.peers[p]].local = "answer"
        /\ \A k \in SignalData(vm, p, "candidate") \ {Malformed} :
                /\ p \in DOMAIN vm.peers
                /\ vm.conns[vm.peers[p]].remote = "offer"
                /\ vm.conns[vm.peers[p]].local = "answer"
                => LET m == HandleSignal(vm, p, "candidate", k, FALSE) IN
                   /\ m.peers = vm.peers
                   /\ m.conns[vm.peers[p]].candidates =
                          Append(vm.conns[vm.peers[p]].candidates, k)
                   /\ m.pending_candidates = vm.pending_candidates
                   /\ m.events = <<>>

\* An offer that found nothing buffered has just been answered.
AnsweredNow ==
    \E p \in Peers :
        /\ vm.events = <<Signal(p, "answer", Sdp)>>
        /\ p \in DOMAIN vm.peers
        /\ vm.conns[vm.peers[p]].local = "answer"
        /\ vm.conns[vm.peers[p]].candidates = <<>>

\* Member x has a connection for member y on which it made the offer.
Offers(x, y) ==
    /\ y \in DOMAIN mesh.vm[x].peers
    /\ mesh.vm[x].conns[mesh.vm[x].peers[y]].local = "offer"

\* C7: in a room whose relay delivers a broadcast join_voice to every other
\* member, no two joined members are both the offering side of their pair,
\* whatever the order of their Join commands and of the deliveries.
NoDoubleOffer ==
    \A x \in Peers, y \in Peers :
        x # y /\ mesh.vm[x].is_joined /\ mesh.vm[y].is_joined
            => ~(Offers(x, y) /\ Offers(y, x))

LeaveVoiceSignal == Signal(None, "leave_voice", Empty)

\* C8: when Disconnected is emitted, and until the host has taken it, the
\* registry and the pending-candidate map are empty and no capture or
\* playback stream is open.
LeaveReleasesAll ==
    Disconnected \in Range(vm.events) =>
        /\ DOMAIN vm.peers = {}
        /\ vm.pending_candidates = EmptyMap
        /\ ~vm.input_stream
        /\ vm.output_streams = {}

\* C9: when Disconnected is emitted by the Leave of a session in a room, the
\* events of the Leave and of the reports its closes set off hold
\* PeerDisconnected once for every peer the registry had and for no other,
\* and Disconnected once, as the last.
LeaveReportsEachPeerOnce ==
    Disconnected \in Range(vm.events) /\ LeaveVoiceSignal \in Range(vm.events) =>
        /\ \A p \in Peers :
            Count(vm.events, PeerDisconnected(p)) = IF p \in vm.left THEN 1 ELSE 0
        /\ Count(vm.events, Disconnected) = 1
        /\ vm.events[Len(vm.events)] = Disconnected

\* C10 as the specification states it: a Leave emits, for the session, the
\* leave_voice broadcast and then MuteStateChanged(false), TxActivity(false),
\* Disconnected, in that order.
LeaveOrderAsStated ==
    Disconnected \in Range(vm.events) =>
        SessionEvents(vm) = <<LeaveVoiceSignal, MuteStateChanged(FALSE),
                              TxActivity(FALSE), Disconnected>>

\* C10: a Leave clears the joined flag first and emits nothing with it; then
\* broadcasts leave_voice if a room id is set and nothing otherwise; then
\* stops the audio engine and clears the pending candidates; then closes and
\* removes the registry's connections one by one; and at last, the registry
\* empty, emits TxActivity(false), MuteStateChanged(false), Disconnected in
\* that order and returns.
LeaveOrder ==
    [][/\ vm.pc = "idle" /\ vm'.pc = "leave_notify" =>
            /\ ~vm'.is_joined /\ vm'.events = vm.events
            /\ vm'.peers = vm.peers /\ vm'.input_stream = vm.input_stream
       /\ vm.pc = "leave_notify" /\ vm'.pc # "leave_notify" =>
            /\ vm'.pc = "leave_reset" /\ ~vm.is_joined
            /\ vm'.events = IF vm.room_id # None
                            THEN Append(vm.events, LeaveVoiceSignal) ELSE vm.events
            /\ vm'.peers = vm.peers /\ vm'.input_stream = vm.input_stream
       /\ vm.pc = "leave_reset" /\ vm'.pc # "leave_reset" =>
            /\ vm'.pc = "leave_drain"
            /\ ~vm'.input_stream /\ vm'.output_streams = {}
            /\ vm'.pending_candidates = EmptyMap
            /\ vm'.peers = vm.peers /\ vm'.events = vm.events
       /\ vm.pc = "leave_drain" /\ vm'.pc = "leave_drain" =>
            \E p \in DOMAIN vm.peers :
                /\ vm'.peers = MapRemove(vm.peers, p)
                /\ vm.peers[p] \notin Conns(vm')
                /\ vm'.events[Len(vm'.events)] = PeerDisconnected(p)
       /\ vm.pc = "leave_drain" /\ vm'.pc # "leave_drain" =>
            /\ vm'.pc = "idle" /\ DOMAIN vm.peers = {}
            /\ ~vm'.is_joined /\ vm'.room_id = None
            /\ vm'.events = vm.events \o <<TxActivity(FALSE), MuteStateChanged(FALSE),
                                           Disconnected>>
      ]_vars

\* A Leave of a session with a room and a peer has returned.
LeftRoom ==
    \E p \in Peers :
        /\ vm.pc = "idle" /\ vm.left = {p}
        /\ vm.events = <<LeaveVoiceSignal, PeerDisconnected(p), TxActivity(FALSE),
                         MuteStateChanged(FALSE), Disconnected>>

\* C11: a Mute(b) command sets the mute flag to b and emits one event,
\* MuteStateChanged(b), and changes nothing else of the manager: the capture
\* stream, the joined flag, the room id, the registry with its connections,
\* the pending candidates and the playback streams are as before, and so are
\* the feed task and the packets that wait for it; and the capture stream
\* is opened by the capture step of a Join and by no other step, so that no
\* Mute opens the microphone.
MuteOnlyMutes ==
    [][/\ Mute =>
            /\ \E b \in BOOLEAN :
                vm' = [vm EXCEPT !.is_muted = b, !.events = <<MuteStateChanged(b)>>]
            /\ feed' = feed
       /\ ~vm.input_stream /\ vm'.input_stream => vm.pc = "join_capture"
      ]_vars

\* The joined session has just been muted: capture runs, the feed task
\* lives, a peer is in the registry and another has candidates buffered.
MutedWhileCapturing ==
    /\ vm.events = <<MuteStateChanged(TRUE)>>
    /\ vm.is_muted /\ vm.is_joined /\ vm.input_stream /\ feed.task
    /\ DOMAIN vm.peers # {} /\ DOMAIN vm.pending_candidates # {}

\* C12 as the specification states it: whenever the feed task writes a packet
\* to the local track, the session is joined and the mute flag is false.
TransmitsOnlyJoinedUnmuted ==
    [][feed.packet /\ ~feed'.packet => vm.is_joined /\ ~vm.is_muted]_vars

\* C13: wherever the run loop takes an answer from a peer, well-formed or
\* not: if the peer has no entry the handler changes nothing at all, no event,
\* no entry, no buffer, no stream, no flag; if the peer has an entry that holds
\* its own offer and waits for the answer, a well-formed answer becomes the
\* remote description of that entry and nothing else changes; an answer the
\* entry cannot take changes nothing.
AnswerApplied ==
    Idle(vm) =>
    \A p \in Peers, data \in {Sdp, Malformed} :
        LET m == HandleSignal(vm, p, "answer", data, FALSE) IN
        IF p \notin DOMAIN vm.peers THEN m = vm
        ELSE IF /\ data = Sdp
                /\ vm.conns[vm.peers[p]].local = "offer"
                /\ vm.conns[vm.peers[p]].remote = None
             THEN m = [vm EXCEPT !.conns[vm.peers[p]].remote = "answer"]
             ELSE m = vm

\* The answer of a peer is the remote description of the connection on
\* which the local side made the offer.
AnswerTaken ==
    \E p \in DOMAIN vm.peers :
        /\ vm.conns[vm.peers[p]].local = "offer"
        /\ vm.conns[vm.peers[p]].remote = "answer"

SdpFailureCleansUp ==
    Idle(vm) /\ vm.is_joined =>
    \A p \in Peers, fire \in BOOLEAN :
        Fits(vm, p, "offer") /\ Room(vm, fire) =>
        LET m == HandleSignal(vm, p, "offer", Malformed, fire) IN
        /\ p \notin DOMAIN m.peers
        /\ PeerConnectionFailed(p) \in Range(m.events) \/ AudioError \in Range(m.events)

\* C16: wherever the run loop takes a Leave while the session is not joined,
\* the handler runs to its return, leaves the registry, the pending-candidate
\* map and the audio streams empty and no connection open, the session not
\* joined, without room and unmuted; and a second Leave after it ends in the
\* state the first one ended in.
LeaveIdempotent ==
    Idle(vm) /\ ~vm.is_joined =>
    \A fire \in BOOLEAN :
        LET m == LeaveVoice(vm, fire) IN
        /\ m.pc = "idle"
        /\ m.events[Len(m.events)] = Disconnected
        /\ DOMAIN m.peers = {} /\ Conns(m) = {}
        /\ m.pending_candidates = EmptyMap
        /\ ~m.input_stream /\ m.output_streams = {}
        /\ ~m.is_joined /\ m.room_id = None /\ ~m.is_muted
        /\ HostTakes(LeaveVoice(HostTakes(m), fire)) = HostTakes(m)

\* A Leave of a session that was not in a room and had no peers has
\* returned: nothing was broadcast and nobody was reported.
LeftWhileNotJoined ==
    /\ vm.pc = "idle"
    /\ vm.events = <<TxActivity(FALSE), MuteStateChanged(FALSE), Disconnected>>

\* Everything fed to the stream so far.
Fed(d) == WaveChunk(d.wave, 1, d.fed)

\* C17: a resampler with equal rates returns from every call of process
\* exactly the samples it was given, same length, values and order, whatever
\* the calls before it: so all that came out is all that went in.
ResamplerIdentity ==
    dsp.resampler.from_rate = dsp.resampler.to_rate =>
        /\ dsp.out = dsp.chunk
        /\ dsp.output = Fed(dsp)

\* The second call on a resampler with equal rates has returned its chunk,
\* not empty, after a first chunk that was not empty either.
IdentityTwice ==
    /\ dsp.resampler.from_rate = dsp.resampler.to_rate
    /\ dsp.calls = 2 /\ dsp.chunk # <<>> /\ dsp.fed > Len(dsp.chunk)
    /\ dsp.out = dsp.chunk

\* C18: for different rates, the outputs of the calls of process on the
\* chunks of a stream, concatenated, are the output of one call on the whole
\* stream on a fresh resampler, sample by sample and as many, and the
\* resampler is left with the same last sample, fractional phase and
\* carry-over as by the one call: the phase does not start over at a chunk
\* boundary; the carry-over is never negative.
ResamplerContinuity ==
    dsp.resampler.from_rate # dsp.resampler.to_rate =>
        LET whole == Process(ResamplerNew(dsp.resampler.from_rate,
                                          dsp.resampler.to_rate), Fed(dsp))
        IN /\ dsp.output = whole.output
           /\ dsp.resampler = whole.resampler
           /\ dsp.resampler.samples_to_drop >= 0

\* Two chunks, neither empty, went through a resampler that takes six
\* samples in for one out; the first call ended between two output samples,
\* and the second call produced the sample after the boundary.
ChunksJoined ==
    /\ dsp.resampler.from_rate = 48000 /\ dsp.resampler.to_rate = 8000
    /\ dsp.calls = 2 /\ dsp.chunk # <<>> /\ dsp.fed > Len(dsp.chunk)
    /\ dsp.out # <<>> /\ Len(dsp.output) = 2

\* C19: wherever the run loop takes a well-formed candidate from a peer: if
\* the peer has no entry, the candidate goes to the end of the peer's pending
\* buffer and nothing else changes, no entry is made and no event emitted; if
\* the peer has an entry, the candidate is handed to that entry at once, which
\* adds it behind the candidates it holds when it has its remote description,
\* and the pending buffers, the registry, the other connections and the events
\* are as before.
CandidateBufferedOrApplied ==
    Idle(vm) =>
    \A p \in Peers :
        \A k \in SignalData(vm, p, "candidate") \ {Malformed} :
            LET m == HandleSignal(vm, p, "candidate", k, FALSE) IN
            IF p \notin DOMAIN vm.peers
            THEN m = [vm EXCEPT !.pending_candidates =
                        MapInsert(@, p, IF p \in DOMAIN @ THEN Append(@[p], k)
                                        ELSE <<k>>)]
            ELSE /\ m = [vm EXCEPT !.conns[vm.peers[p]] = m.conns[vm.peers[p]]]
                 /\ vm.conns[vm.peers[p]].remote # None =>
                        m.conns[vm.peers[p]] =
                            [vm.conns[vm.peers[p]] EXCEPT !.candidates = Append(@, k)]

\* A second candidate of a peer without entry is buffered behind the first.
BufferedBehind ==
    \E p \in Peers :
        /\ p \notin DOMAIN vm.peers
        /\ p \in DOMAIN vm.pending_candidates
        /\ vm.pending_candidates[p] = <<"k1", "k2">>

\* A connection attempt for peer p is outstanding: the registry has no entry
\* for the peer yet, or has one that holds an offer, the peer's or its own.
Outstanding(m, p) ==
    p \in DOMAIN m.peers =>
        m.conns[m.peers[p]].local = "offer" \/ m.conns[m.peers[p]].remote = "offer"

\* C20 as the specification states it: wherever the joined session takes a
\* well-formed candidate of a peer while a connection attempt for the peer is
\* outstanding, the candidate is, when the handler has returned, applied to
\* the peer's connection or held in the peer's pending buffer, behind the
\* candidates that came before it.
CandidatesKept ==
    Idle(vm) /\ vm.is_joined =>
    \A p \in {q \in Peers : Outstanding(vm, q)} :
        \A k \in SignalData(vm, p, "candidate") \ {Malformed} :
            LET m == HandleSignal(vm, p, "candidate", k, FALSE) IN
            \/ /\ p \in DOMAIN m.peers
               /\ m.conns[m.peers[p]].candidates =
                      Append(vm.conns[vm.peers[p]].candidates, k)
            \/ /\ p \in DOMAIN m.pending_candidates
               /\ m.pending_candidates[p] # <<>>
               /\ m.pending_candidates[p][Len(m.pending_candidates[p])] = k

\* C21 as the specification states it: wherever the joined session takes a
\* join_voice or a well-formed offer of a peer, the handler that makes the
\* peer's connection drains the peer's pending-candidate buffer, so that when
\* it has returned the peer has an entry in the registry and no buffer.
BufferDrainedWithEntry ==
    Idle(vm) /\ vm.is_joined =>
    \A p \in Peers, fire \in BOOLEAN :
        \A signal_type \in {"join_voice", "offer"} :
            Fits(vm, p, signal_type) /\ Room(vm, fire) =>
            LET m == HandleSignal(vm, p, signal_type,
                                  IF signal_type = "offer" THEN Sdp ELSE Empty, fire)
            IN p \in DOMAIN m.peers /\ p \notin DOMAIN m.pending_candidates

\* C22: every Join, whatever the session was before it, has stopped the
\* capture of the old session and emptied the pending-candidate map when it
\* turns to the registry, and has closed and removed every connection of the
\* registry before it starts the capture and before it broadcasts join_voice;
\* when Connected is emitted the registry and the pending-candidate map are
\* empty, no connection is open and the capture stream is open.
JoinStartsClean ==
    /\ vm.pc \in {"join_drain", "join_capture"} =>
            ~vm.input_stream /\ vm.pending_candidates = EmptyMap
    /\ vm.pc \in {"join_capture", "join_announce"} =>
            /\ DOMAIN vm.peers = {} /\ \A p \in Peers : LiveConns(vm, p) = {}
            /\ vm.pending_candidates = EmptyMap
            /\ Signal(None, "join_voice", Empty) \notin Range(vm.events)
    /\ Connected \in Range(vm.events) =>
            /\ DOMAIN vm.peers = {} /\ \A p \in Peers : LiveConns(vm, p) = {}
            /\ vm.pending_candidates = EmptyMap
            /\ vm.input_stream

\* A Join of a session that was joined, with a peer in the registry, has
\* returned with Connected: the peer's connection was closed, which the
\* transport reported.
JoinedAgain ==
    \E p \in Peers :
        /\ vm.pc = "idle" /\ vm.is_joined
        /\ vm.events = <<Connecting, PeerDisconnected(p),
                         Signal(None, "join_voice", Empty), Connected>>

\* C23: a report of the state Failed or Disconnected by a connection changes
\* nothing of the manager but what it sends: one event about the peer and
\* one CleanupPeer for the peer at the end of the internal channel; and while
\* a CleanupPeer for a peer is first in the channel of a run loop that keeps
\* running, the loop eventually handles it, and when it has, the peer has no
\* entry in the registry, no open connection and no playback stream.
CleanupReachesLoop ==
    /\ [][\A c \in Conns(vm) \cap Conns(vm') :
            /\ vm'.conns[c].state \in {"failed", "disconnected"}
            /\ vm'.conns[c].state # vm.conns[c].state
            => /\ vm' = [vm EXCEPT !.events = vm'.events, !.internal = vm'.internal,
                                   !.conns[c].state = vm'.conns[c].state]
               /\ vm'.internal = Append(vm.internal, CleanupPeer(vm.conns[c].peer))
               /\ vm'.events =
                    <<IF vm'.conns[c].state = "failed"
                      THEN PeerConnectionFailed(vm.conns[c].peer)
                      ELSE PeerDisconnected(vm.conns[c].peer)>>
         ]_vars
    /\ [](Idle(vm) /\ vm.internal # <<>> =>
            \A fire \in BOOLEAN :
                LET m == HandleCleanupPeer(vm, fire)
                    p == Head(vm.internal)[2]
                IN /\ p \notin DOMAIN m.peers /\ LiveConns(m, p) = {}
                   /\ p \notin m.output_streams)
    /\ [][IsPrefix(vm.internal, vm'.internal) \/ Internal]_vars
    /\ []<><<Internal>>_vars \/ []<>(vm.internal = <<>>)

\* The run loop has just handled the CleanupPeer of a peer: the peer has no
\* entry and no playback stream, and the transport has reported the close.
CleanedUp ==
    \E p \in Peers :
        /\ vm.pc = "idle" /\ vm.is_joined
        /\ p \notin DOMAIN vm.peers /\ p \notin vm.output_streams
        /\ vm.events = <<PeerDisconnected(p)>>
        /\ vm.internal = <<CleanupPeer(p)>>

\* C24: after every step the connections that are open are the ones the
\* registry holds, so that a close, which is only ever called on a connection
\* just taken out of the registry, never meets a closed connection and no
\* connection leaves the registry open; and a step after which a peer of the
\* registry has no entry has removed that one entry, has left no open
\* connection of the peer, and is a step of a leave_voice of the peer, of a
\* CleanupPeer for the peer, of a local Leave or of the reset of a Join.
ClosedWithRemoval ==
    [][/\ \A c \in Conns(vm') :
            vm'.conns[c].closed <=> \A p \in DOMAIN vm'.peers : vm'.peers[p] # c
       /\ \A p \in DOMAIN vm'.peers :
            vm'.peers[p] \in Conns(vm') /\ vm'.conns[vm'.peers[p]].peer = p
       /\ \A p \in DOMAIN vm.peers \ DOMAIN vm'.peers :
            /\ LiveConns(vm', p) = {}
            /\ DOMAIN vm.peers \ DOMAIN vm'.peers = {p}
            /\ \/ \E fire \in BOOLEAN : SignalFrom(p, "leave_voice", Empty, fire)
               \/ Internal /\ Head(vm.internal) = CleanupPeer(p)
               \/ LeaveStep
               \/ JoinStep
      ]_vars

\* A peer with an entry in the registry has an older connection that was
\* replaced: it is closed, and only a callback in flight still holds it.
ClosedAndReplaced ==
    \E p \in DOMAIN vm.peers, c \in Conns(vm) :
        /\ vm.conns[c].peer = p /\ vm.conns[c].closed
        /\ ~vm.conns[vm.peers[p]].closed

\* C25 as the specification states it: when a handler of the run loop has
\* returned, whatever on_track callbacks ran beside it, every open playback
\* stream belongs to a peer that has an entry in the registry.
StreamsHaveEntries ==
    vm.pc = "idle" /\ vm.is_joined => vm.output_streams \subseteq DOMAIN vm.peers

\* C26 as the specification states it: when a command handler has returned,
\* the capture stream is open if and only if the session is joined, and no
\* playback stream is open while the session is not joined.
FlagAgreesWithStreams ==
    vm.pc = "idle" =>
        /\ vm.input_stream <=> vm.is_joined
        /\ ~vm.is_joined => vm.output_streams = {}

\* C27 as the specification states it: when a Leave returns, no playback
\* stream is open, at whatever point of an on_track callback the Leave began:
\* a callback in flight during the Leave has started no stream that is open
\* when the Leave has completed.
LeaveOutlivesNoCallback ==
    [][vm.pc = "leave_drain" /\ vm'.pc = "idle" => vm'.output_streams = {}]_vars

\* The mutexes a task holds.
LocksOf(task) == {x \in DOMAIN sync.holder : sync.holder[x] = task}

\* C28 as the specification states it: no task is at a suspension point, an
\* await of a close, of a description or candidate being applied, or of
\* another mutex, while it holds the registry mutex or the audio-engine mutex.
NoLockAcrossAwait ==
    /\ StepOfRun(sync)[1] \in {"lock", "await"} => LocksOf("run") = {}
    /\ sync.on_track = "wait" => LocksOf("on_track") = {}

\* C29 as the specification states it: when a Leave has emitted Disconnected
\* the session has no room id, is not joined, is not muted and has no local
\* track; and a Join of a joined session that has reset the old session and
\* is about to mark the new one has no local track and is not muted,
\* whatever Mute commands came before it.
SessionCleared ==
    /\ Disconnected \in Range(vm.events) =>
            /\ vm.room_id = None /\ ~vm.is_joined
            /\ ~vm.is_muted /\ ~vm.local_track
    /\ vm.pc = "join_drain" /\ vm.is_joined /\ DOMAIN vm.peers = {} =>
            ~vm.local_track /\ ~vm.is_muted

\* C30: whatever calls a resampler has behind it and whatever its rates, a
\* call of process without samples returns no samples, and the call after it
\* returns, for every chunk the stream may go on with, the samples it would
\* have returned without the empty call, and leaves the resampler as it would
\* have left it, so that all later calls are the same as well.
EmptyChunkIsNoCall ==
    LET empty == Process(dsp.resampler, <<>>) IN
    /\ empty.output = <<>>
    /\ dsp.calls > 0 /\ dsp.chunk = <<>> => dsp.out = <<>>
    /\ \A len \in 0..(MaxInput - dsp.fed) :
        LET chunk == WaveChunk(dsp.wave, dsp.fed + 1, dsp.fed + len)
            after == Process(empty.resampler, chunk)
            plain == Process(dsp.resampler, chunk)
        IN after.output = plain.output /\ after.resampler = plain.resampler

\* An upsampling resampler that has taken samples and is between two of
\* them, the last one not zero, has been called without samples: the call
\* returned nothing, and more of the stream is to come.
EmptyCallMidStream ==
    /\ dsp.resampler.from_rate < dsp.resampler.to_rate
    /\ dsp.calls = 2 /\ dsp.chunk = <<>> /\ dsp.out = <<>>
    /\ dsp.fed > 0 /\ dsp.fed < MaxInput
    /\ dsp.resampler.last_sample # 0 /\ dsp.resampler.fraction # 0

\* C34 as the specification states it: wherever the run loop takes a
\* CleanupPeer for a peer whose entry in the registry is a connection that
\* has reported neither Failed nor Disconnected nor Closed, a newer one than
\* the connection whose callback posted the instruction, the handler leaves
\* the entry, the connection and the peer's pending candidates as they are.
CleanupSparesNewer ==
    Idle(vm) /\ vm.is_joined /\ vm.internal # <<>> =>
    LET p == Head(vm.internal)[2] IN
    \A fire \in BOOLEAN :
        /\ p \in DOMAIN vm.peers
        /\ vm.conns[vm.peers[p]].state \notin {"failed", "disconnected", "closed"}
        => LET m == HandleCleanupPeer(vm, fire) IN
           /\ p \in DOMAIN m.peers /\ m.peers[p] = vm.peers[p]
           /\ LiveConns(m, p) = {vm.peers[p]}
           /\ m.pending_candidates = vm.pending_candidates

\* C35 as the specification states it: while the session is not joined and
\* the run loop waits for its next command, the registry and the
\* pending-candidate map are empty and no offer, answer or candidate Signal
\* has been emitted, whatever signals the peers have sent.
QuietWhileNotJoined ==
    vm.pc = "idle" /\ ~vm.is_joined =>
        /\ DOMAIN vm.peers = {}
        /\ vm.pending_candidates = EmptyMap
        /\ \A i \in DOMAIN vm.events :
            IsSignal(vm.events[i]) =>
                vm.events[i][3] \notin {"offer", "answer", "candidate"}

\* C36 as the specification states it: in the events the host has not taken
\* yet, no TxActivity(true) comes after a Disconnected unless a Connecting
\* lies between them: the feed task reports no transmit activity for a
\* packet it takes after the Leave.
NoTxAfterDisconnected ==
    \A i \in DOMAIN vm.events, j \in DOMAIN vm.events :
        i < j /\ vm.events[i] = Disconnected /\ vm.events[j] = TxActivity(TRUE)
            => \E k \in (i + 1)..(j - 1) : vm.events[k] = Connecting

\* C40: between different rates, after any sequence of chunks the skip count
\* carried over is not negative and last_sample is the last sample that was
\* fed, so that index -1 stands for it; and for every next chunk, also one
\* shorter than the skip count, every base index at which process
\* interpolates lies in -1 .. len - 2.
NeverReadsOutside ==
    dsp.wave # None /\ dsp.resampler.from_rate # dsp.resampler.to_rate =>
        /\ dsp.resampler.samples_to_drop >= 0
        /\ dsp.fed > 0 => dsp.resampler.last_sample = WaveSample(dsp.wave, dsp.fed)
        /\ \A len \in 0..(MaxInput - dsp.fed) :
            LET chunk == WaveChunk(dsp.wave, dsp.fed + 1, dsp.fed + len)
                reads == BaseIndices(dsp.resampler, chunk,
                                     -1 + dsp.resampler.samples_to_drop,
                                     dsp.resampler.fraction)
            IN /\ \A i \in reads : i >= -1 /\ i <= len - 2
               /\ dsp.resampler.samples_to_drop >= len => reads = {}
               /\ reads = {} <=> Process(dsp.resampler, chunk).output = <<>>

\* C40 witness: downsampling, the second chunk was shorter than the skip
\* count the first one left, nothing was interpolated and a skip remains.
ShortChunkSkipped ==
    /\ dsp.resampler.from_rate > dsp.resampler.to_rate
    /\ dsp.calls = 2 /\ dsp.chunk # <<>> /\ dsp.fed > Len(dsp.chunk)
    /\ dsp.out = <<>> /\ dsp.resampler.samples_to_drop > 0

\* The run loop waits for on_track: for a mutex on_track holds, or for a close
\* to complete while the callback of the connection is still in flight.
RunWaits ==
    LET step == StepOfRun(sync) IN
    \/ step[1] = "lock" /\ sync.holder[step[2]] = "on_track"
    \/ step = Await("close") /\ sync.on_track \in {"wait", "locked"}

\* on_track waits for the run loop: for the audio engine the loop holds.
OnTrackWaits ==
    sync.on_track = "wait" /\ sync.holder["audio_engine"] = "run"

\* C38: the run loop and on_track never wait for each other, and whenever
\* one of them is inside a handler or a callback one of them can take its
\* next step; a mutex is held by the task that took it and by no other.
NeverDeadlocks ==
    /\ ~(RunWaits /\ OnTrackWaits)
    /\ sync.run # None \/ sync.on_track # "none" =>
            \/ sync.run # None /\ ~RunWaits
               /\ (StepOfRun(sync)[1] = "lock" => sync.holder[StepOfRun(sync)[2]] = None)
            \/ sync.on_track = "locked"
            \/ sync.on_track = "wait" /\ sync.holder["audio_engine"] = None
    /\ sync.holder["audio_engine"] = "on_track" <=> sync.on_track = "locked"
    /\ sync.holder["peers"] # "on_track"

\* C38 witness: CleanupPeer holds the registry and waits for the audio
\* engine, which on_track holds.
CleanupWaitsForOnTrack ==
    /\ sync.run = "CleanupPeer" /\ sync.holder["peers"] = "run"
    /\ StepOfRun(sync) = Lock("audio_engine")
    /\ sync.holder["audio_engine"] = "on_track"

\* The Connected and ConnectionFailed events the host has not taken yet.
Outcomes(m) == Count(m.events, Connected) + Count(m.events, ConnectionFailed)

\* C37: while join_voice runs its Connecting is out and no outcome is; the
\* run loop goes from join_voice to nothing but its select!; join_voice
\* returns; and when it has returned exactly one of Connected and
\* ConnectionFailed follows the Connecting.
ConnectingResolved ==
    /\ [](vm.pc \in JoinPcs =>
            Count(vm.events, Connecting) = 1 /\ Outcomes(vm) = 0)
    /\ [](vm.pc = "idle" /\ Connecting \in Range(vm.events) =>
            /\ Count(vm.events, Connecting) = 1 /\ Outcomes(vm) = 1
            /\ vm.events[1] = Connecting)
    /\ [][vm.pc \in JoinPcs => vm'.pc \in JoinPcs \cup {"idle"}]_vars
    /\ (vm.pc \in JoinPcs) ~>
            (vm.pc = "idle" /\ Connecting \in Range(vm.events) /\ Outcomes(vm) = 1)

\* C37 witness: a Join of a joined session with a peer has returned; the
\* close of the old connection was reported between Connecting and Connected.
RejoinResolved ==
    /\ vm.pc = "idle" /\ vm.events # <<>>
    /\ vm.events[1] = Connecting /\ Connected \in Range(vm.events)
    /\ \E p \in Peers : PeerDisconnected(p) \in Range(vm.events)

\* The host has dropped the command senders, and no command, internal
\* instruction or audio error is queued.
Quiet ==
    /\ ~sel.command_tx /\ sel.command_rx = <<>>
    /\ sel.internal_rx = 0 /\ sel.audio_error_rx = 0

\* C39 as the specification states it: when the command queue is closed and
\* from some moment on nothing is pending in any of the three channels, run
\* eventually takes its else branch and returns.
RunReturns == <>[]Quiet => <>sel.returned

\* The samples first .. last of the pushed stream, in arrival order.
Arrived(first, last) == [i \in 1..(last - first + 1) |-> first + i - 1]

\* C31: the ring buffer holds at most twice the device rate, and it is the
\* newest samples pushed, in arrival order; and every push leaves the
\* newest samples of the old buffer and the pushed chunk, in their order, as
\* many as the bound allows: exactly the excess is gone from the oldest end.
RingBounded ==
    play.rate > 0 =>
        /\ Len(play.buffer) <= 2 * play.rate
        /\ play.buffer = Arrived(play.pushed - Len(play.buffer) + 1, play.pushed)
        /\ \A len \in 0..(2 * play.rate) :
            LET after == DecodePush(play, len).buffer
                excess == Len(play.buffer) + len - 2 * play.rate
                kept == IF excess > 0 THEN Len(play.buffer) + len - excess
                        ELSE Len(play.buffer) + len
            IN /\ Len(after) = kept /\ Len(after) <= 2 * play.rate
               /\ after = Arrived(play.pushed + len - kept + 1, play.pushed + len)

\* C31 witness: the buffer is full after pushes that went over the bound,
\* and its oldest sample is not the oldest one of the last callback's time.
RingOverran ==
    /\ play.rate > 0 /\ Len(play.buffer) = 2 * play.rate
    /\ play.data # <<>>
    /\ \E i \in DOMAIN play.data :
            play.data[i] # Silence /\ play.buffer[1] > play.data[i] + 1

\* C32: for every n the output callback writes n samples: the min(n, k)
\* oldest of the k buffered, in order, then silence; it leaves the other
\* k - min(n, k) buffered, in order; and it is a value for every buffer, the
\* empty one as well.
CallbackDrains ==
    play.rate > 0 =>
        \A n \in 0..(MaxAsk + 1) :
            LET k == Len(play.buffer)
                min == IF n < k THEN n ELSE k
                after == OutputCallback(play, n)
            IN /\ Len(after.data) = n
               /\ \A i \in 1..min : after.data[i] = play.buffer[i]
               /\ \A i \in (min + 1)..n : after.data[i] = Silence
               /\ Len(after.buffer) = k - min
               /\ \A i \in 1..(k - min) : after.buffer[i] = play.buffer[min + i]
               /\ after.pushed = play.pushed

\* C32 witness: a callback found fewer samples than it asked for, wrote them
\* and silence behind them, and left the buffer empty.
CallbackUnderran ==
    /\ Len(play.data) > 1
    /\ play.data[1] # Silence /\ play.data[Len(play.data)] = Silence
    /\ play.buffer = <<>>

\* C33: every frame the encoding task passed to the encoder for the last
\* chunk has 960 samples; the frames passed so far and the buffer behind
\* them are the resampled stream, every sample once and in order; and while
\* the task runs fewer than 960 samples are buffered when a chunk is done.
FramesExact ==
    LET first == cap.passed - 960 * Len(cap.frames) IN
    /\ \A j \in DOMAIN cap.frames :
            cap.frames[j] = Arrived(first + 960 * (j - 1) + 1, first + 960 * j)
    /\ first >= 0 /\ first % 960 = 0
    /\ cap.buffer = Arrived(cap.passed + 1, cap.resampled)
    /\ cap.running => Len(cap.buffer) < 960

\* C33 witness: a chunk that met a buffer that was not empty gave two
\* frames and left a rest.
TwoFramesAndRest ==
    /\ cap.running /\ Len(cap.frames) = 2
    /\ cap.passed > 1920 /\ (cap.frames[1])[1] > 1
    /\ cap.buffer # <<>>

====
